---------------------------- MODULE Spec2Model ----------------------------
(***************************************************************************)
(* Financial Fraud MAS (src/Financial Fraud MAS/agents.py): the five agent *)
(* functions and the StateGraph `workflow` that runs them over the         *)
(* AgentState channels; its tools (tools.py); and the graphs of the Data   *)
(* Analytics MAS, of Agents/react_agent.py and of the course's rag.py.     *)
(*                                                                         *)
(* Python values are encoded as follows.                                   *)
(*   dict        a function whose DOMAIN is the set of keys present        *)
(*   list        a sequence                                                *)
(*   None        the value None, a text no record of the model holds       *)
(*   float score integers: the running risk_score in thousandths, the      *)
(*               rounded risk_score of a flagged record in hundredths      *)
(***************************************************************************)
EXTENDS Integers, Sequences, FiniteSets, TLC

VARIABLES
    channels,   \* the AgentState channels of the graph run
    tasks,      \* nodes of the current superstep
    finished,   \* nodes of the current superstep that have returned
    writes,     \* node -> the state it returned in this superstep
    step,       \* superstep number
    history,    \* log of node executions of the run
    io,         \* what the run was given from outside: the state invoke was
                \* called with, the loaders' responses, the model's analysis,
                \* the file, the tool calls, the documents found
    fn,         \* direct call of one agent function: its name, or "none"
    arg,        \* the state handed to that function, as it was at the call
    passed,     \* the channel value objects handed in, as they are after
                \* the call (a list or dict the function changed in place)
    res         \* the state it returned

vars == <<channels, tasks, finished, writes, step, history, io, fn, arg, passed, res>>
runVars == <<channels, tasks, finished, writes, step, history, io>>
callVars == <<fn, arg, passed, res>>

---------------------------------------------------------------------------
(* Python helpers *)

None == "<None>"

\* dict.get(k): the value, or None when the key is absent
Get(d, k) == IF k \in DOMAIN d THEN d[k] ELSE None

\* dict.get(k, default)
GetD(d, k, default) == IF k \in DOMAIN d THEN d[k] ELSE default

\* truth value of an identifier-like value: None and "" are falsy
Truthy(v) == v # None /\ v # ""

\* the empty dict
EmptyDict == [k \in {} |-> 0]

\* operator.or_ on dicts: shallow, right-biased union
or_(a, b) == [k \in (DOMAIN a) \cup (DOMAIN b) |-> IF k \in DOMAIN b THEN b[k] ELSE a[k]]

\* operator.add on lists
add(a, b) == a \o b

\* round(x, 2): x in thousandths, the result in hundredths (half away from
\* zero; no sum of rule contributions ends in 5 thousandths)
round2(x) == (x + 5) \div 10

---------------------------------------------------------------------------
(* fraud_detection_agent *)

HIGH_AMOUNT_THRESHOLD == 2000
HIGH_AMOUNT_SCORE == 700
DUPLICATE_SCORE == 800
FOREIGN_SCORE == 600

HIGH_REASON == "High amount transaction"
DUP_REASON == "Duplicate transaction same day"
FOREIGN_REASON == "Foreign location detected"

known_locations ==
    [AC001 |-> {"New York"}, AC002 |-> {"Chicago", "Los Angeles"},
     AC003 |-> {"Miami", "Lagos"}, AC004 |-> {"New York"}]

\* mutant: the comprehension without the transaction_id test
duplicates_no_id_test(transactions, txn) ==
    SelectSeq(transactions, LAMBDA t:
        /\ Get(t, "account_id") = Get(txn, "account_id")
        /\ Get(t, "date") = Get(txn, "date")
        /\ Get(t, "amount") = Get(txn, "amount"))

\* the list comprehension `duplicates`
duplicates(transactions, txn) ==
    SelectSeq(transactions, LAMBDA t:
        /\ Get(t, "account_id") = Get(txn, "account_id")
        /\ Get(t, "date") = Get(txn, "date")
        /\ Get(t, "amount") = Get(txn, "amount")
        /\ Get(t, "transaction_id") # Get(txn, "transaction_id"))

\* mutant: the threshold test as >=
high_amount_rule_ge(txn, acc) ==
    IF GetD(txn, "amount", 0) >= HIGH_AMOUNT_THRESHOLD
    THEN [risk_score |-> acc.risk_score + HIGH_AMOUNT_SCORE,
          reasons |-> Append(acc.reasons, HIGH_REASON)]
    ELSE acc

\* the three rules of one loop iteration, in the code's order, on the
\* accumulator [risk_score, reasons]
high_amount_rule(txn, acc) ==
    IF GetD(txn, "amount", 0) > HIGH_AMOUNT_THRESHOLD
    THEN [risk_score |-> acc.risk_score + HIGH_AMOUNT_SCORE,
          reasons |-> Append(acc.reasons, HIGH_REASON)]
    ELSE acc

\* mutant: the duplicate rule adds its score and no reason
duplicate_rule_no_reason(transactions, txn, acc) ==
    IF duplicates(transactions, txn) # <<>>
    THEN [risk_score |-> acc.risk_score + DUPLICATE_SCORE,
          reasons |-> acc.reasons]
    ELSE acc

\* mutant: the duplicate rule adds the high-amount score
duplicate_rule_high_score(transactions, txn, acc) ==
    IF duplicates(transactions, txn) # <<>>
    THEN [risk_score |-> acc.risk_score + HIGH_AMOUNT_SCORE,
          reasons |-> Append(acc.reasons, DUP_REASON)]
    ELSE acc

duplicate_rule(transactions, txn, acc) ==
    IF duplicates(transactions, txn) # <<>>
    THEN [risk_score |-> acc.risk_score + DUPLICATE_SCORE,
          reasons |-> Append(acc.reasons, DUP_REASON)]
    ELSE acc

\* mutant: the rule without the test that the record has a country
foreign_location_rule_no_country_test(txn, acc) ==
    IF /\ Get(txn, "account_id") \in DOMAIN known_locations
       /\ Get(txn, "country") \notin known_locations[txn["account_id"]]
    THEN [risk_score |-> acc.risk_score + FOREIGN_SCORE,
          reasons |-> Append(acc.reasons, FOREIGN_REASON)]
    ELSE acc


foreign_location_rule(txn, acc) ==
    IF /\ Truthy(Get(txn, "country"))
       /\ Get(txn, "account_id") \in DOMAIN known_locations
       /\ txn["country"] \notin known_locations[txn["account_id"]]
    THEN [risk_score |-> acc.risk_score + FOREIGN_SCORE,
          reasons |-> Append(acc.reasons, FOREIGN_REASON)]
    ELSE acc

score_txn(transactions, txn) ==
    foreign_location_rule(txn,
        duplicate_rule(transactions, txn,
            high_amount_rule(txn, [risk_score |-> 0, reasons |-> <<>>])))

\* mutant: the score capped at 1.0
flagged_record_capped(txn, acc) ==
    [transaction_id |-> Get(txn, "transaction_id"),
     account_id |-> Get(txn, "account_id"),
     amount |-> Get(txn, "amount"),
     date |-> Get(txn, "date"),
     risk_score |-> IF round2(acc.risk_score) > 100 THEN 100 ELSE round2(acc.risk_score),
     reasons |-> acc.reasons]

\* the dict appended to fraud_data for a flagged transaction
flagged_record(txn, acc) ==
    [transaction_id |-> Get(txn, "transaction_id"),
     account_id |-> Get(txn, "account_id"),
     amount |-> Get(txn, "amount"),
     date |-> Get(txn, "date"),
     risk_score |-> round2(acc.risk_score),
     reasons |-> acc.reasons]

\* mutant: every record appended, flagged or not
fraud_iteration_ge(transactions, txn, fraud_data) ==
    LET acc == score_txn(transactions, txn)
    IN  IF acc.risk_score >= 0
        THEN Append(fraud_data, flagged_record(txn, acc))
        ELSE fraud_data

\* one iteration of `for txn in transactions`
fraud_iteration(transactions, txn, fraud_data) ==
    LET acc == score_txn(transactions, txn)
    IN  IF acc.risk_score > 0
        THEN Append(fraud_data, flagged_record(txn, acc))
        ELSE fraud_data

RECURSIVE fraud_loop(_, _, _)
fraud_loop(transactions, i, fraud_data) ==
    IF i > Len(transactions) THEN fraud_data
    ELSE fraud_loop(transactions, i + 1,
                    fraud_iteration(transactions, transactions[i], fraud_data))

fraud_detection_agent(state) ==
    LET transactions == GetD(GetD(state, "transaction_data", EmptyDict), "data", <<>>)
    IN  [state EXCEPT !["fraud_data"] = fraud_loop(transactions, 1, <<>>)]

---------------------------------------------------------------------------
(* risk_analysis_agent *)

\* The dict risk_report keeps its keys in insertion order: a sequence of
\* entries [account_id, total_flagged, transactions], one per key.
HasAccount(risk_report, acct) ==
    \E k \in 1..Len(risk_report) : risk_report[k]["account_id"] = acct

\* mutant: a new account's entry starts at total_flagged 1
risk_iteration_off_by_one(txn, risk_report) ==
    LET acct == txn["account_id"]
        created == IF ~HasAccount(risk_report, acct)
                   THEN Append(risk_report,
                               [account_id |-> acct, total_flagged |-> 1, transactions |-> <<>>])
                   ELSE risk_report
    IN  [k \in 1..Len(created) |->
            IF created[k]["account_id"] = acct
            THEN [created[k] EXCEPT !["total_flagged"] = @ + 1,
                                    !["transactions"] = Append(@, txn)]
            ELSE created[k]]

\* one iteration of `for txn in fraud_data`
risk_iteration(txn, risk_report) ==
    LET acct == txn["account_id"]
        created == IF ~HasAccount(risk_report, acct)
                   THEN Append(risk_report,
                               [account_id |-> acct, total_flagged |-> 0, transactions |-> <<>>])
                   ELSE risk_report
    IN  [k \in 1..Len(created) |->
            IF created[k]["account_id"] = acct
            THEN [created[k] EXCEPT !["total_flagged"] = @ + 1,
                                    !["transactions"] = Append(@, txn)]
            ELSE created[k]]

RECURSIVE risk_loop(_, _, _)
risk_loop(fraud_data, i, risk_report) ==
    IF i > Len(fraud_data) THEN risk_report
    ELSE risk_loop(fraud_data, i + 1, risk_iteration(fraud_data[i], risk_report))

\* [{"account_id": k, **v} for k, v in risk_report.items()]
risk_analysis_agent(state) ==
    LET fraud_data == GetD(state, "fraud_data", <<>>)
    IN  [state EXCEPT !["risk_report"] = risk_loop(fraud_data, 1, <<>>)]

---------------------------------------------------------------------------
(* supervisor_agent *)

\* str() of a value put into an f-string
Str(v) == IF v = None THEN "None" ELSE v

\* f"{tx['account_id']}_{tx['date']}_{tx['amount']}"
composite_key(tx) ==
    Str(tx["account_id"]) \o "_" \o Str(tx["date"]) \o "_" \o ToString(tx["amount"])

\* tx.get("transaction_id") or tx.get("payment_id") or f"..."
tx_key(tx) ==
    IF Truthy(Get(tx, "transaction_id")) THEN tx["transaction_id"]
    ELSE IF Truthy(Get(tx, "payment_id")) THEN tx["payment_id"]
    ELSE composite_key(tx)

\* mutant: the backfill takes the composite key, whatever payment_id is
backfill_composite(tx) ==
    IF "transaction_id" \notin DOMAIN tx
    THEN or_(tx, [k \in {"transaction_id"} |-> composite_key(tx)])
    ELSE tx

\* if "transaction_id" not in tx: tx["transaction_id"] = tx.get("payment_id", tx_key)
backfill(tx) ==
    IF "transaction_id" \notin DOMAIN tx
    THEN or_(tx, [k \in {"transaction_id"} |-> GetD(tx, "payment_id", tx_key(tx))])
    ELSE tx

\* mutant: the key of a kept record is not added to seen
dedup_iteration_no_seen(tx, acc) ==
    IF tx_key(tx) \notin acc.seen
    THEN [seen |-> acc.seen,
          clean_fraud |-> Append(acc.clean_fraud, backfill(tx)),
          objects |-> Append(acc.objects, backfill(tx))]
    ELSE [acc EXCEPT !.objects = Append(acc.objects, tx)]

\* One iteration of `for tx in state.get("fraud_data", [])` on the
\* accumulator [seen, clean_fraud, objects]: objects is the input list read
\* so far, each record as the iteration leaves it (tx is changed in place).
dedup_iteration(tx, acc) ==
    IF tx_key(tx) \notin acc.seen
    THEN [seen |-> acc.seen \cup {tx_key(tx)},
          clean_fraud |-> Append(acc.clean_fraud, backfill(tx)),
          objects |-> Append(acc.objects, backfill(tx))]
    ELSE [acc EXCEPT !.objects = Append(acc.objects, tx)]

RECURSIVE dedup_loop(_, _, _)
dedup_loop(fraud_data, i, acc) ==
    IF i > Len(fraud_data) THEN acc
    ELSE dedup_loop(fraud_data, i + 1, dedup_iteration(fraud_data[i], acc))

dedup(fraud_data) ==
    dedup_loop(fraud_data, 1, [seen |-> {}, clean_fraud |-> <<>>, objects |-> <<>>])

\* The value under transaction_data["analysis"] is a chain of shells, the
\* value itself first and then, for a dict with a "data" key, the value
\* under that key, and so on: shell.dict says the value is a dict,
\* shell.data that it has the key "data", shell.tag names its other content.
IsDataDict(shell) == shell.dict /\ shell.data

\* mutant: one level unwrapped, an `if` in place of the `while`
flatten_loop_once(analysis) ==
    IF IsDataDict(Head(analysis)) THEN Tail(analysis) ELSE analysis

\* while isinstance(analysis, dict) and "data" in analysis: analysis = analysis["data"]
RECURSIVE flatten_loop(_)
flatten_loop(analysis) ==
    IF IsDataDict(Head(analysis))
    THEN flatten_loop(Tail(analysis))
    ELSE analysis

flatten(transactions) ==
    IF "analysis" \in DOMAIN transactions
    THEN [transactions EXCEPT !["analysis"] = flatten_loop(@)]
    ELSE transactions

\* the text of a risk_score (hundredths) as Python prints the float
FormatScore(h) ==
    ToString(h \div 100) \o "." \o
        (IF h % 10 = 0 THEN ToString((h % 100) \div 10)
         ELSE ToString((h % 100) \div 10) \o ToString(h % 10))

RECURSIVE join(_, _)
join(sep, strs) ==
    IF strs = <<>> THEN ""
    ELSE IF Len(strs) = 1 THEN strs[1]
    ELSE strs[1] \o sep \o join(sep, Tail(strs))

tx_line(tx) ==
    "  - " \o Str(tx["transaction_id"]) \o " | Amount: " \o ToString(tx["amount"])
        \o " | Date: " \o Str(tx["date"]) \o " | Risk: " \o FormatScore(tx["risk_score"])
        \o " | Reasons: " \o join(", ", tx["reasons"])

RECURSIVE tx_lines(_)
tx_lines(transactions) ==
    IF transactions = <<>> THEN <<>>
    ELSE <<tx_line(Head(transactions))>> \o tx_lines(Tail(transactions))

\* mutant: the transactions' lines without the account's header line
account_lines_no_header(account_summary) ==
    tx_lines(GetD(account_summary, "transactions", <<>>))

\* the lines appended for one account_summary of the risk report
account_lines(account_summary) ==
    <<"Account " \o Str(GetD(account_summary, "account_id", "Unknown")) \o " has "
        \o ToString(GetD(account_summary, "total_flagged", 0)) \o " flagged transactions:">>
    \o tx_lines(GetD(account_summary, "transactions", <<>>))

RECURSIVE summary_lines(_)
summary_lines(risk_report) ==
    IF risk_report = <<>> THEN <<>>
    ELSE account_lines(Head(risk_report)) \o summary_lines(Tail(risk_report))

\* the state supervisor_agent returns; readable_report is kept as the list
\* of lines that "\n".join puts together
supervisor_agent(state) ==
    LET clean_fraud == dedup(GetD(state, "fraud_data", <<>>)).clean_fraud
        transactions == flatten(GetD(state, "transaction_data", EmptyDict))
        risk_report == GetD(state, "risk_report", <<>>)
    IN  [state EXCEPT
            !["fraud_data"] = clean_fraud,
            !["transaction_data"] = transactions,
            !["final_report"] =
                [json_report |-> [transactions |-> transactions,
                                  fraud_data |-> clean_fraud,
                                  risk_report |-> risk_report],
                 readable_report |-> summary_lines(risk_report)]]

\* mutant: the list handed in is itself cut down to the kept records
\* (state["fraud_data"][:] = clean_fraud)
supervisor_in_place_dedup(state) ==
    [state EXCEPT
        !["fraud_data"] = dedup(GetD(state, "fraud_data", <<>>)).clean_fraud,
        !["transaction_data"] = flatten(GetD(state, "transaction_data", EmptyDict))]

\* what supervisor_agent leaves in the objects it was handed: the records
\* of the fraud_data list it backfilled and the transaction_data dict it
\* flattened are changed in place
supervisor_in_place(state) ==
    [state EXCEPT
        !["fraud_data"] = dedup(GetD(state, "fraud_data", <<>>)).objects,
        !["transaction_data"] = flatten(GetD(state, "transaction_data", EmptyDict))]

---------------------------------------------------------------------------
(* The state and bounded sets of values *)

RECURSIVE SeqsUpTo(_, _)
SeqsUpTo(S, n) ==
    IF n = 0 THEN {<<>>}
    ELSE LET shorter == SeqsUpTo(S, n - 1)
         IN  shorter \cup {Append(s, x) : s \in {t \in shorter : Len(t) = n - 1}, x \in S}

Absent == "<absent>"

\* a dict with key k added unless v is Absent
WithOpt(d, k, v) == IF v = Absent THEN d ELSE or_(d, [x \in {k} |-> v])

EmptyState ==
    [transaction_data_sources |-> <<>>, transaction_data |-> EmptyDict,
     fraud_data |-> <<>>, risk_report |-> <<>>, final_report |-> EmptyDict]

NoIO ==
    [initial_state |-> EmptyState, responses |-> <<>>, analysis |-> <<>>, raised |-> FALSE]

IdleRun ==
    /\ channels = EmptyState
    /\ io = NoIO
    /\ tasks = {}
    /\ finished = {}
    /\ writes = EmptyDict
    /\ step = 0
    /\ history = <<>>

---------------------------------------------------------------------------
(* ingestion_agent and transaction_analysis_agent *)

\* The tool ingestion_agent invokes for a source: source.endswith(".csv"),
\* source.startswith("http"), else.
Loader(source) ==
    CASE source \in {"a.csv", "d.csv"} -> "load_csv"
      [] source \in {"http://b"} -> "fetch_api"
      [] OTHER -> "query_database"

\* query_database.invoke(source, query=...): invoke takes the tool's input
\* as its one positional argument, here the text `source`; the keyword
\* `query` is not part of it.  The input is validated against the tool's
\* two required arguments db_path and query and the validation error is
\* raised, out of ingestion_agent and out of the run: the tool's body, and
\* its {"error": ...} for a missing file, is never reached.
Raises(sources) ==
    \E i \in 1..Len(sources) : Loader(sources[i]) = "query_database"

\* One iteration of `for source in state.get("transaction_data_sources", [])`:
\* response is what load_csv / fetch_api returned for it.
ingestion_iteration(response, all_data) ==
    IF "error" \in DOMAIN response
    THEN all_data
    ELSE all_data \o GetD(response, "data", <<>>)

RECURSIVE ingestion_loop(_, _, _, _)
ingestion_loop(sources, responses, i, all_data) ==
    IF i > Len(sources) THEN all_data
    ELSE ingestion_loop(sources, responses, i + 1,
                        ingestion_iteration(responses[i], all_data))

\* responses[i] is the loader's answer for the i-th source
ingestion_agent(state, responses) ==
    LET sources == GetD(state, "transaction_data_sources", <<>>)
    IN  [state EXCEPT !["transaction_data"] =
            [data |-> ingestion_loop(sources, responses, 1, <<>>)]]

\* state["transaction_data"]["analysis"] = ...: analysis is what the code
\* extracts from the model's response (the parsed function_call arguments,
\* their raw text, the content, or str(response))
transaction_analysis_agent(state, analysis) ==
    [state EXCEPT !["transaction_data"] =
        or_(state["transaction_data"], [k \in {"analysis"} |-> analysis])]

---------------------------------------------------------------------------
(* workflow: the StateGraph over AgentState, compiled and invoked *)

\* StateGraph (langgraph) runs the compiled graph in supersteps.  The nodes
\* of a superstep are those with an incoming edge from a node that ran in
\* the superstep before (add_edge with one start node: the end node is
\* triggered every time the start node has run; only add_edge with a list
\* of start nodes makes a node wait for all of them).  Each node is handed
\* a dict of the current channel values, the values themselves not copied.
\* When all nodes of the superstep have returned, every key of every
\* returned dict is folded into its channel by the channel's reducer, node
\* by node in the order the nodes were added.

Nodes == {"ingestion", "transaction_analysis", "fraud_detector", "risk_analysis", "supervisor"}

\* add_node order
NodeOrder == <<"ingestion", "transaction_analysis", "fraud_detector", "risk_analysis", "supervisor">>

\* mutant: the edge into the supervisor left out
Edges_no_supervisor ==
    { <<"ingestion", "transaction_analysis">>,
      <<"transaction_analysis", "fraud_detector">>,
      <<"fraud_detector", "risk_analysis">>,
      <<"transaction_analysis", "risk_analysis">> }

\* add_edge
Edges ==
    { <<"ingestion", "transaction_analysis">>,
      <<"transaction_analysis", "fraud_detector">>,
      <<"fraud_detector", "risk_analysis">>,
      <<"transaction_analysis", "risk_analysis">>,
      <<"risk_analysis", "supervisor">> }

\* set_entry_point
EntryPoint == "ingestion"

Predecessors(n) == {e[1] : e \in {d \in Edges : d[2] = n}}

\* the nodes triggered by the nodes that ran in a superstep
Triggered(ran) == {e[2] : e \in {d \in Edges : d[1] \in ran}}

\* the reducer each AgentState channel is annotated with
Reduce(key, old, new) ==
    IF key \in {"transaction_data", "final_report"} THEN or_(old, new) ELSE add(old, new)

ChannelKeys ==
    {"transaction_data_sources", "transaction_data", "fraud_data", "risk_report", "final_report"}

\* The value node n wrote for a channel.  Every node but ingestion returns,
\* under transaction_data, the channel's own dict (ingestion binds a new
\* one), so what is folded is that dict as it is at the fold.
Written(n, key, current) ==
    IF key = "transaction_data" /\ n # "ingestion" THEN current ELSE writes[n][key]

RECURSIVE FoldWrites(_, _, _)
FoldWrites(key, i, value) ==
    IF i > Len(NodeOrder) THEN value
    ELSE FoldWrites(key, i + 1,
                    IF NodeOrder[i] \in tasks
                    THEN Reduce(key, value, Written(NodeOrder[i], key, value))
                    ELSE value)

\* the nodes whose returned state has been folded into the channels
Folded == {history[k].node : k \in {j \in DOMAIN history : history[j].step < step}}

\* the log entry of an execution of node n
Execution(n) ==
    [node |-> n, step |-> step, folded |-> Folded, fraud_data |-> channels["fraud_data"]]

Runnable(n) == n \in tasks /\ n \notin finished

Returned(n, state) ==
    /\ writes' = [m \in (DOMAIN writes) \cup {n} |-> IF m = n THEN state ELSE writes[m]]
    /\ finished' = finished \cup {n}
    /\ history' = Append(history, Execution(n))
    /\ UNCHANGED <<tasks, step, callVars>>

MaxSources == 2
MaxRows == 1
MaxNest == 2

\* the rows the loaders may return: a same-day pair of an account with no
\* known_locations entry (each flagged only beside the other), and a high
\* amount from a foreign location
SourceRows ==
    { [transaction_id |-> "T1", account_id |-> "AC009", amount |-> 500, date |-> "D1"],
      [transaction_id |-> "T2", account_id |-> "AC009", amount |-> 500, date |-> "D1"],
      [transaction_id |-> "T3", account_id |-> "AC002", amount |-> 2500, date |-> "D1",
       country |-> "Paris"] }

\* what a loader returns: {"error": ...} or {"data": [...], ...}
LoaderResponses ==
    { [error |-> "failed"] } \cup { [data |-> rows] : rows \in SeqsUpTo(SourceRows, MaxRows) }

SourceNames == <<"a.csv", "http://b", "d.csv">>

\* the lists of sources invoke is called with: files and URLs, and lists
\* that end with a database
SourceLists ==
    { SubSeq(SourceNames, 1, n) : n \in 0..MaxSources }
    \cup { Append(SubSeq(SourceNames, 1, n - 1), "c.db") : n \in 1..MaxSources }

\* n wrappers {"data": ...} around a leaf
RECURSIVE Wrapped(_, _)
Wrapped(n, leaf) ==
    IF n = 0 THEN <<leaf>>
    ELSE <<[dict |-> TRUE, data |-> TRUE, tag |-> "wrapper"]>> \o Wrapped(n - 1, leaf)

\* the analysis values: a text, or parsed function_call arguments, a dict
\* nested under up to MaxNest "data" keys
AnalysisValues ==
    { <<[dict |-> FALSE, data |-> FALSE, tag |-> "content"]>> }
    \cup { Wrapped(n, [dict |-> TRUE, data |-> FALSE, tag |-> "arguments"]) : n \in 0..MaxNest }

\* initial_state of __main__, written to the channels through their reducers
Init ==
    /\ \E sources \in SourceLists :
          LET initial_state == [EmptyState EXCEPT !["transaction_data_sources"] = sources]
          IN  /\ channels = [EmptyState EXCEPT !["transaction_data_sources"] =
                                add(<<>>, initial_state["transaction_data_sources"])]
              /\ io = [NoIO EXCEPT !.initial_state = initial_state]
    /\ tasks = {EntryPoint}
    /\ finished = {}
    /\ writes = EmptyDict
    /\ step = 1
    /\ history = <<>>
    /\ fn = "none"
    /\ arg = EmptyState
    /\ passed = EmptyState
    /\ res = EmptyState

RunIngestion ==
    /\ Runnable("ingestion")
    /\ ~Raises(channels["transaction_data_sources"])
    /\ \E responses \in [1..Len(channels["transaction_data_sources"]) -> LoaderResponses] :
          /\ Returned("ingestion", ingestion_agent(channels, responses))
          /\ io' = [io EXCEPT !.responses = responses]
    /\ UNCHANGED channels

\* ingestion_agent raises: invoke ends with the exception and no state
RaiseInIngestion ==
    /\ Runnable("ingestion")
    /\ Raises(channels["transaction_data_sources"])
    /\ tasks' = {}
    /\ io' = [io EXCEPT !.raised = TRUE]
    /\ UNCHANGED <<channels, finished, writes, step, history, callVars>>

\* the analysis is stored in the channel's own dict
RunTransactionAnalysis ==
    /\ Runnable("transaction_analysis")
    /\ \E analysis \in AnalysisValues :
          /\ channels' = transaction_analysis_agent(channels, analysis)
          /\ Returned("transaction_analysis", transaction_analysis_agent(channels, analysis))
          /\ io' = [io EXCEPT !.analysis = analysis]

RunFraudDetector ==
    /\ Runnable("fraud_detector")
    /\ Returned("fraud_detector", fraud_detection_agent(channels))
    /\ UNCHANGED <<channels, io>>

RunRiskAnalysis ==
    /\ Runnable("risk_analysis")
    /\ Returned("risk_analysis", risk_analysis_agent(channels))
    /\ UNCHANGED <<channels, io>>

\* the supervisor flattens the channel's own transaction_data dict and
\* backfills the channel's own fraud_data records
RunSupervisor ==
    /\ Runnable("supervisor")
    /\ channels' = supervisor_in_place(channels)
    /\ Returned("supervisor", supervisor_agent(channels))
    /\ UNCHANGED io

\* all nodes of the superstep have returned: fold what they returned into
\* the channels and start the superstep of the nodes they trigger
EndStep ==
    /\ tasks # {}
    /\ finished = tasks
    /\ channels' = [key \in ChannelKeys |-> FoldWrites(key, 1, channels[key])]
    /\ tasks' = Triggered(tasks)
    /\ finished' = {}
    /\ writes' = EmptyDict
    /\ step' = step + 1
    /\ UNCHANGED <<history, io, callVars>>

Next ==
    \/ RunIngestion
    \/ RaiseInIngestion
    \/ RunTransactionAnalysis
    \/ RunFraudDetector
    \/ RunRiskAnalysis
    \/ RunSupervisor
    \/ EndStep

Spec == Init /\ [][Next]_vars

\* a node body that is called returns or raises, and the engine then goes
\* on: the run takes every step it can
SpecLive == Spec /\ WF_vars(Next)

\* invoke has returned: no node is left to run
RunEnded == tasks = {} /\ ~io.raised

---------------------------------------------------------------------------
(* Inputs of the direct calls *)

MaxTxns == 3

\* account and country of the input records: an account with a
\* known_locations entry without country, with a known and with a foreign
\* one, and an account with no entry
AccountCountry ==
    ({"AC001"} \X {Absent, "New York", "Paris"}) \cup ({"AC009"} \X {"Paris"})

TxnRecords ==
    { WithOpt([transaction_id |-> tid, account_id |-> ac[1], amount |-> amt, date |-> "D1"],
              "country", ac[2]) :
        tid \in {"T1", "T2"}, ac \in AccountCountry, amt \in {2000, 2001} }

InitFraud ==
    /\ IdleRun
    /\ fn = "none"
    /\ arg \in { [EmptyState EXCEPT !["transaction_data"] = [data |-> t]] :
                   t \in SeqsUpTo(TxnRecords, MaxTxns) }
    /\ passed = arg
    /\ res = EmptyState

CallFraud ==
    /\ fn = "none"
    /\ fn' = "fraud_detection_agent"
    /\ res' = fraud_detection_agent(arg)
    /\ UNCHANGED <<arg, passed, runVars>>

SpecFraud == InitFraud /\ [][CallFraud]_vars

MaxPayments == 2

\* records identified by transaction_id, by payment_id, by both or by
\* neither, of an account with and one without a known_locations entry
PaymentRecords ==
    { WithOpt(WithOpt([account_id |-> acct, amount |-> 500, date |-> "D1"],
                      "transaction_id", tid), "payment_id", pid) :
        acct \in {"AC001", "AC009"}, tid \in {Absent, "T1", "T2"}, pid \in {Absent, "P1", "P2"} }

InitPayment ==
    /\ IdleRun
    /\ fn = "none"
    /\ arg \in { [EmptyState EXCEPT !["transaction_data"] = [data |-> t]] :
                   t \in SeqsUpTo(PaymentRecords, MaxPayments) }
    /\ passed = arg
    /\ res = EmptyState

SpecPayment == InitPayment /\ [][CallFraud]_vars

MaxFlagged == 4

\* flagged records of three accounts, two per account
FlaggedRecords ==
    { [transaction_id |-> tid, account_id |-> acct, amount |-> 500, date |-> "D1",
       risk_score |-> 80, reasons |-> <<DUP_REASON>>] :
        tid \in {"T1", "T2"}, acct \in {"AC001", "AC002", "AC009"} }

InitRisk ==
    /\ IdleRun
    /\ fn = "none"
    /\ arg \in { [EmptyState EXCEPT !["fraud_data"] = f] :
                   f \in SeqsUpTo(FlaggedRecords, MaxFlagged) }
    /\ passed = arg
    /\ res = EmptyState

CallRisk ==
    /\ fn = "none"
    /\ fn' = "risk_analysis_agent"
    /\ res' = risk_analysis_agent(arg)
    /\ UNCHANGED <<arg, passed, runVars>>

SpecRisk == InitRisk /\ [][CallRisk]_vars

MaxDedup == 3

\* flagged records as the supervisor may be handed them: transaction_id
\* absent, None, an id, or a text equal to a composite key; payment_id
\* absent, empty, or equal to another record's transaction_id; and records
\* of another amount that have no id, whose composite key differs
DedupRecord(amt, tid, pid) ==
    WithOpt(WithOpt([account_id |-> "AC001", amount |-> amt, date |-> "D1",
                     risk_score |-> 80, reasons |-> <<DUP_REASON>>],
                    "transaction_id", tid),
            "payment_id", pid)

DedupRecords ==
    { DedupRecord(500, tid, pid) :
        tid \in {Absent, None, "T1", "AC001_D1_500"}, pid \in {Absent, "", "T1"} }
    \cup { DedupRecord(900, Absent, pid) : pid \in {Absent, ""} }

InitDedup ==
    /\ IdleRun
    /\ fn = "none"
    /\ arg \in { [EmptyState EXCEPT !["fraud_data"] = f] :
                   f \in SeqsUpTo(DedupRecords, MaxDedup) }
    /\ passed = arg
    /\ res = EmptyState

\* supervisor_agent called on a state
CallSupervisor ==
    /\ fn = "none"
    /\ fn' = "supervisor_agent"
    /\ res' = supervisor_agent(arg)
    /\ passed' = supervisor_in_place(arg)
    /\ UNCHANGED <<arg, runVars>>

\* supervisor_agent called again, on the state the first call returned
CallSupervisorAgain ==
    /\ fn = "supervisor_agent"
    /\ fn' = "supervisor_agent again"
    /\ arg' = res
    /\ res' = supervisor_agent(res)
    /\ passed' = supervisor_in_place(res)
    /\ UNCHANGED runVars

NextDedup == CallSupervisor \/ CallSupervisorAgain

SpecDedup == InitDedup /\ [][NextDedup]_vars

MaxReport == 3

\* flagged records as fraud_detection_agent emits them, of two accounts,
\* with one reason and with two
ReportRecords ==
    { [transaction_id |-> tid, account_id |-> acct, amount |-> sr[1], date |-> "D1",
       risk_score |-> sr[2], reasons |-> sr[3]] :
        tid \in {"T1", "T2"}, acct \in {"AC001", "AC009"},
        sr \in { <<500, 80, <<DUP_REASON>>>>, <<2500, 150, <<HIGH_REASON, DUP_REASON>>>> } }

\* what transaction_data["analysis"] may hold when the supervisor runs: the
\* values transaction_analysis_agent stores, and under up to MaxNest "data"
\* keys a list or a text (a text in which "data" occurs is no dict)
NestedAnalyses ==
    AnalysisValues
    \cup { Wrapped(n, [dict |-> FALSE, data |-> FALSE, tag |-> "list"]) : n \in 0..MaxNest }
    \cup { Wrapped(n, [dict |-> FALSE, data |-> TRUE, tag |-> "text"]) : n \in 0..MaxNest }

\* transaction_data: the initial {}, ingested data, and data with an analysis
TransactionDataValues ==
    { EmptyDict, [data |-> <<>>] }
    \cup { [data |-> <<>>, analysis |-> a] : a \in NestedAnalyses }

\* the state the supervisor is handed: fraud_data, the risk_report
\* risk_analysis_agent makes of it, and a transaction_data
InitSupervisor ==
    /\ IdleRun
    /\ fn = "none"
    /\ arg \in { [EmptyState EXCEPT !["fraud_data"] = f,
                                    !["risk_report"] = risk_loop(f, 1, <<>>),
                                    !["transaction_data"] = t] :
                   f \in SeqsUpTo(ReportRecords, MaxReport), t \in TransactionDataValues }
    /\ passed = arg
    /\ res = EmptyState

SpecSupervisor == InitSupervisor /\ [][CallSupervisor]_vars

---------------------------------------------------------------------------
(* tools.py: the analysis and scoring tools *)

ToolNames ==
    {"statistical_summary", "time_series_analysis", "outlier_detection", "ml_fraud_model",
     "rule_based_checker", "graph_based_detection", "risk_scorer", "regulatory_checker"}

\* the key of the dict a tool returns when its computation succeeds
ResultKey(name) ==
    CASE name \in {"statistical_summary", "time_series_analysis", "outlier_detection"} -> "results"
      [] name = "ml_fraud_model" -> "data"
      [] name = "rule_based_checker" -> "rule_flags"
      [] name = "graph_based_detection" -> "graph_flags"
      [] name = "risk_scorer" -> "risk_report"
      [] name = "regulatory_checker" -> "regulatory_report"

\* the text before str(e) in the tool's error message
ErrorText(name) ==
    CASE name = "statistical_summary" -> "Issue reading DataFrame object: "
      [] name = "time_series_analysis" -> "Error opening the DataFrame: "
      [] name = "outlier_detection" -> "Error defining data as a DataFrame: "
      [] name = "ml_fraud_model" -> "Error defining transaction data into DataFrame: "
      [] name = "rule_based_checker" -> "Error in rule-based checking: "
      [] name = "graph_based_detection" -> "Error in graph-based detection: "
      [] name = "risk_scorer" -> "Error scoring transaction risk: "
      [] name = "regulatory_checker" -> "Error in regulatory check: "

\* data["data"] is [rows, columns]: the number of rows and the columns of
\* the DataFrame made of them.  The columns the tool's body subscripts:
\* df[...] on the frame raises KeyError for a column it has not,
\* row[...] only if there is a row, and df.get("country", "") gives a text,
\* which has no isin.
ColumnsRead(name, frame) ==
    CASE name = "time_series_analysis" -> {"date", "amount"}
      [] name = "outlier_detection" -> {"amount", "ip_address"}
      [] name = "rule_based_checker" -> {"amount", "account_id", "date"}
      [] name = "graph_based_detection" -> IF frame.rows > 0 THEN {"account_id"} ELSE {}
      [] name = "regulatory_checker" -> {"amount", "date", "account_id", "country"}
      [] OTHER -> {}

\* an exception raised in the body
Raised == [raised |-> "Exception"]

\* The body under `try:`: data["data"], the DataFrame and its columns, and
\* the computation on it, which raises when other_failure (a frame with no
\* numeric column, a value that is no date, a missing module).
try_body(name, data, other_failure) ==
    IF "data" \notin DOMAIN data THEN Raised
    ELSE IF ~(ColumnsRead(name, data["data"]) \subseteq data["data"].columns) THEN Raised
    ELSE IF other_failure THEN Raised
    ELSE [k \in {ResultKey(name)} |-> "computed"]

\* try: ... except Exception as e: return {"error": f"...{str(e)}"}
try_except(name, data, other_failure) ==
    IF try_body(name, data, other_failure) = Raised
    THEN [error |-> ErrorText(name)]
    ELSE try_body(name, data, other_failure)

\* mutant: the tool without `if "error" in data: return data`
tool_no_error_check(name, data, other_failure) ==
    try_except(name, data, other_failure)

\* a tool called with data: what it returns
tool(name, data, other_failure) ==
    IF "error" \in DOMAIN data THEN data
    ELSE try_except(name, data, other_failure)

Columns == {"amount", "date", "account_id", "ip_address", "country"}

\* the frames of data["data"]: no row, or a row with some of the columns
Frames ==
    { [rows |-> 0, columns |-> {}] }
    \cup { [rows |-> 1, columns |-> c] : c \in (SUBSET Columns) \ {{}} }

\* the mappings a tool is called with: a loader's or a tool's error (alone,
\* with the keys fetch_api adds, with a data key beside it), a mapping
\* with neither key, and data
ToolInputs ==
    { [error |-> "failed"],
      [error |-> "failed", source |-> "http://b", status |-> "failed"],
      [error |-> "failed", data |-> [rows |-> 1, columns |-> Columns]],
      [columns |-> "amount"] }
    \cup { [data |-> f] : f \in Frames }

InitTools ==
    /\ IdleRun
    /\ fn = "none"
    /\ arg \in ToolInputs
    /\ passed = arg
    /\ res = EmptyDict

CallTool ==
    /\ fn = "none"
    /\ \E name \in ToolNames, other_failure \in BOOLEAN :
          /\ fn' = name
          /\ res' = tool(name, arg, other_failure)
    /\ UNCHANGED <<arg, passed, runVars>>

SpecTools == InitTools /\ [][CallTool]_vars

---------------------------------------------------------------------------
(* Data Analytics MAS: tools.py *)

\* os.path.splitext(path)[1] of the paths a run is given
splitext(path) ==
    CASE path \in {"data.csv"} -> ".csv"
      [] path \in {"DATA.CSV"} -> ".CSV"
      [] path \in {"data.json"} -> ".json"
      [] path \in {"data.txt"} -> ".txt"
      [] path \in {"data.xlsx"} -> ".xlsx"
      [] path \in {"data.xml"} -> ".xml"
      [] OTHER -> ""

\* str.lower
lower(ext) == IF ext = ".CSV" THEN ".csv" ELSE ext

\* load_dataset(path), the file at the path being `file`: none, one whose
\* reading raises, or one read into a frame
load_dataset(path, file) ==
    IF ~file.exists THEN [error |-> <<"File not found at path ", path>>]
    ELSE IF lower(splitext(path)) \notin {".csv", ".json", ".txt", ".xlsx"}
         THEN [error |-> <<"Unsupported file extension: ", lower(splitext(path))>>]
    ELSE IF "raises" \in DOMAIN file THEN [error |-> <<file.raises>>]
    ELSE [data |-> file.records, columns |-> file.columns]

\* df.select_dtypes(include=["number"]).columns of pd.DataFrame(records):
\* of the columns of the frames, x holds numbers
NumericColumns(records) ==
    IF records = <<>> THEN {} ELSE (DOMAIN records[1]) \cap {"x"}

\* the sum over the first n records of the column's values to a power
RECURSIVE SumOfPowers(_, _, _, _)
SumOfPowers(records, col, n, power) ==
    IF n = 0 THEN 0
    ELSE SumOfPowers(records, col, n - 1, power)
         + (IF power = 2 THEN records[n][col] * records[n][col] ELSE records[n][col])

\* the k-th smallest value of the column
KthSmallest(records, col, k) ==
    CHOOSE v \in {records[i][col] : i \in DOMAIN records} :
        /\ Cardinality({i \in DOMAIN records : records[i][col] < v}) < k
        /\ Cardinality({i \in DOMAIN records : records[i][col] <= v}) >= k

\* stats[col]: mean and median as fractions, std by the fraction that is
\* its square
column_stats(records, col) ==
    LET n == Len(records)
        total == SumOfPowers(records, col, n, 1)
        squares == SumOfPowers(records, col, n, 2)
    IN  [shape |-> <<n>>,
         mean |-> <<total, n>>,
         median |-> IF n % 2 = 1
                    THEN <<KthSmallest(records, col, (n + 1) \div 2), 1>>
                    ELSE <<KthSmallest(records, col, n \div 2)
                           + KthSmallest(records, col, n \div 2 + 1), 2>>,
         std |-> IF n = 1 THEN "NaN"
                 ELSE [squared |-> <<n * squares - total * total, n * (n - 1)>>],
         min |-> KthSmallest(records, col, 1),
         max |-> KthSmallest(records, col, n),
         count |-> n]

\* the stats dict: df.info() is None, no value of the frames is null
stats_of(records) ==
    LET numeric == NumericColumns(records)
        columns == IF records = <<>> THEN {} ELSE DOMAIN records[1]
    IN  [k \in {"info", "null_cols"} \cup numeric |->
            CASE k = "info" -> None
              [] k = "null_cols" -> [c \in columns |-> 0]
              [] OTHER -> column_stats(records, k)]

\* mutant: data_analysis without `if "error" in data: return data`
data_analysis_no_error_check(data, other_failure) ==
    IF "data" \notin DOMAIN data
    THEN [error |-> <<"Error performing data analysis on dataset: ", "'data'">>]
    ELSE IF other_failure
         THEN [error |-> <<"Error performing data analysis on dataset: ", "pandas">>]
    ELSE [stats |-> stats_of(data["data"])]

\* data_analysis(data); other_failure: pandas raises in the try block
data_analysis(data, other_failure) ==
    IF "error" \in DOMAIN data THEN data
    ELSE IF "data" \notin DOMAIN data
         THEN [error |-> <<"Error performing data analysis on dataset: ", "'data'">>]
    ELSE IF other_failure
         THEN [error |-> <<"Error performing data analysis on dataset: ", "pandas">>]
    ELSE [stats |-> stats_of(data["data"])]

\* data_visualization(data): the try block ends without a return
data_visualization(data, other_failure) ==
    IF "error" \in DOMAIN data THEN data
    ELSE IF "data" \notin DOMAIN data
         THEN [error |-> <<"Error creating visualizations: ", "'data'">>]
    ELSE IF other_failure
         THEN [error |-> <<"Error creating visualizations: ", "pandas">>]
    ELSE None

\* A function under @tool called with a dict: the dict's keys are the
\* function's arguments, so data_analysis({"data": d}) is the function on d.
tool_call(tool_input) == tool_input["data"]

---------------------------------------------------------------------------
(* Data Analytics MAS: agents.py *)

DataLoaderAgent(state, file) ==
    [state EXCEPT !["dataset"] = load_dataset(state["data_path"], file)]

AnalystAgent(state, other_failure) ==
    [state EXCEPT !["analysis_results"] =
        data_analysis(tool_call([data |-> state["dataset"]]), other_failure)]

VisualizationAgent(state, other_failure) ==
    [state EXCEPT !["visualizations"] =
        Append(@, data_visualization(tool_call([data |-> state["dataset"]]), other_failure))]

\* response is what supervisor_llm.invoke returns for the prompt
SupervisorAgent(state, response) ==
    [state EXCEPT !["final_report"] = response]

\* graph.add_edge: the node after each node, END after the supervisor
END == "__end__"

AnalyticsEdges ==
    {<<"loader", "analyst">>, <<"analyst", "visualize">>, <<"visualize", "supervisor">>,
     <<"supervisor", END>>}

AnalyticsEntryPoint == "loader"

\* the nodes of the superstep after node n has returned
AnalyticsTriggered(n) == {e[2] : e \in {d \in AnalyticsEdges : d[1] = n}} \ {END}

MaxRecords == 2

\* the file at data_path: none, one whose reading raises, or one with up
\* to MaxRecords rows under its header
Files ==
    { [exists |-> FALSE], [exists |-> TRUE, raises |-> "ParserError"] }
    \cup { [exists |-> TRUE, records |-> r, columns |-> <<"x", "name">>] :
             r \in SeqsUpTo({ [x |-> v, name |-> "a"] : v \in {1, 2} }, MaxRecords) }

Paths == {"data.csv", "DATA.CSV", "data.json", "data.txt", "data.xlsx", "data.xml", "data"}

\* initial_state of __main__, for a data_path and a file at it
InitAnalytics ==
    /\ \E path \in Paths, file \in Files :
          /\ channels = [data_path |-> path, dataset |-> None, analysis_results |-> None,
                         visualizations |-> <<>>, final_report |-> ""]
          /\ io = [file |-> file]
    /\ tasks = {AnalyticsEntryPoint}
    /\ finished = {}
    /\ writes = EmptyDict
    /\ step = 1
    /\ history = <<>>
    /\ fn = "none"
    /\ arg = EmptyState
    /\ passed = EmptyState
    /\ res = EmptyState

\* the superstep of node n: every key of the state the node returns is
\* written to its channel, and the node's successor is next
AnalyticsStep(n, state) ==
    /\ tasks = {n}
    /\ channels' = state
    /\ tasks' = AnalyticsTriggered(n)
    /\ step' = step + 1
    /\ history' = Append(history, [node |-> n, step |-> step])
    /\ UNCHANGED <<finished, writes, io, callVars>>

RunLoader == AnalyticsStep("loader", DataLoaderAgent(channels, io.file))

RunAnalyst ==
    \E other_failure \in BOOLEAN :
        AnalyticsStep("analyst", AnalystAgent(channels, other_failure))

RunVisualize ==
    \E other_failure \in BOOLEAN :
        AnalyticsStep("visualize", VisualizationAgent(channels, other_failure))

RunReportSupervisor ==
    \E response \in { [content |-> "# Report"], [content |-> ""] } :
        AnalyticsStep("supervisor", SupervisorAgent(channels, response))

NextAnalytics == RunLoader \/ RunAnalyst \/ RunVisualize \/ RunReportSupervisor

SpecAnalytics == InitAnalytics /\ [][NextAnalytics]_vars

---------------------------------------------------------------------------
(* Agents/react_agent.py *)

\* the messages of a list that have no id given one (a uuid: a new value)
with_ids(messages, at) ==
    [i \in DOMAIN messages |->
        IF "id" \in DOMAIN messages[i] THEN messages[i]
        ELSE or_(messages[i], [id |-> [uuid |-> <<at, i>>]])]

\* the reducer add_messages on lists of messages that have ids: a message
\* with the id of one in the list takes its place, any other is appended
RECURSIVE add_messages(_, _)
add_messages(left, right) ==
    IF right = <<>> THEN left
    ELSE LET m == Head(right)
             same == {i \in DOMAIN left : left[i].id = m.id}
         IN  add_messages(IF same = {} THEN Append(left, m)
                          ELSE [left EXCEPT ![CHOOSE i \in same : TRUE] = m],
                          Tail(right))

\* ("user", text) as a message
HumanMessage(content) == [type |-> "human", content |-> content]

\* the tool add under @tool, invoked by the tools node with the args of a
\* tool call: the sum, or the error of args that do not fit (a, b)
call_add(args) ==
    IF {"a", "b"} \subseteq DOMAIN args
    THEN [content |-> ToString(args["a"] + args["b"]), status |-> "success"]
    ELSE [content |-> "Error: ValidationError\n Please fix your mistakes.", status |-> "error"]

\* the ToolMessage the tools node makes for one tool call
react_tool_message(call) ==
    LET result == IF call.name \in {"add"} THEN call_add(call.args)
                  ELSE [content |-> <<"Error: ", call.name,
                                      " is not a valid tool, try one of [add].">>,
                        status |-> "error"]
    IN  [type |-> "tool", content |-> result.content, name |-> call.name,
         tool_call_id |-> call.id, status |-> result.status]

\* model_call(state), response being what model.invoke returns
model_call(state, response) == [messages |-> <<response>>]

\* ToolNode(tools): one ToolMessage for each tool call of the last message
tool_node(state) ==
    LET tool_calls == state["messages"][Len(state["messages"])].tool_calls
    IN  [messages |-> [i \in DOMAIN tool_calls |-> react_tool_message(tool_calls[i])]]

\* mutant: the test of should_continue the other way round
should_continue_inverted(state) ==
    LET messages == state["messages"]
        last_message == messages[Len(messages)]
    IN  IF last_message.tool_calls # <<>> THEN "end" ELSE "continue"

should_continue(state) ==
    LET messages == state["messages"]
        last_message == messages[Len(messages)]
    IN  IF last_message.tool_calls = <<>> THEN "end" ELSE "continue"

\* the mapping given to add_conditional_edges
ReactPathMap == [continue |-> "tools", end |-> END]

\* add_edge("tools", "agent")
ReactEdges == {<<"tools", "agent">>}

ReactEntryPoint == "agent"

\* the supersteps a run may take: the engine's default, no config is given
recursion_limit == 25

MaxToolCalls == 1

\* the tool calls a model may ask for: a sum, a tool that is not bound,
\* a sum with an argument missing
ReactToolCalls ==
    { [name |-> "add", args |-> [a |-> 40, b |-> 12], id |-> "call_1"],
      [name |-> "multiply", args |-> [a |-> 40, b |-> 12], id |-> "call_2"],
      [name |-> "add", args |-> [a |-> 40], id |-> "call_3"] }

\* the messages the model may answer with in a run whose tool calls are
\* `calls`: an answer, or a message with the tool calls
AIMessages(calls, at) ==
    { [type |-> "ai", content |-> c, tool_calls |-> <<>>, id |-> [run |-> at]] :
        c \in {"52", ""} }
    \cup { [type |-> "ai", content |-> "", tool_calls |-> calls, id |-> [run |-> at]] }

NoRun == [calls |-> <<>>, docs |-> <<>>, evaluated |-> 0, raised |-> FALSE]

\* inputs of __main__ written to the channel through its reducer
InitReact ==
    /\ \E text \in {"Add 40 + 12.", ""},
          calls \in SeqsUpTo(ReactToolCalls, MaxToolCalls) \ {<<>>} :
          /\ channels = [messages |-> add_messages(<<>>, with_ids(<<HumanMessage(text)>>, 0))]
          /\ io = [NoRun EXCEPT !.calls = calls]
    /\ tasks = {ReactEntryPoint}
    /\ finished = {}
    /\ writes = EmptyDict
    /\ step = 1
    /\ history = <<>>
    /\ fn = "none"
    /\ arg = EmptyState
    /\ passed = EmptyState
    /\ res = EmptyState

\* The end of a superstep whose node wrote `messages` and triggered the
\* nodes `next`: the write goes through the reducer, and the run goes on
\* with `next` unless the supersteps are used up, when it raises
\* GraphRecursionError.
EndSuperstep(entry, messages, next) ==
    /\ channels' = [messages |-> messages]
    /\ history' = Append(history, entry)
    /\ step' = step + 1
    /\ tasks' = IF step >= recursion_limit THEN {} ELSE next
    /\ UNCHANGED <<finished, writes, callVars>>

OutOfSteps(next) == next # {} /\ step >= recursion_limit

\* the agent node, and the decision after it, which reads the state with
\* the node's write folded in
RunAgent ==
    /\ tasks = {"agent"}
    /\ \E response \in AIMessages(io.calls, step) :
          LET messages == add_messages(channels["messages"],
                              with_ids(model_call(channels, response)["messages"], step))
              label == should_continue([messages |-> messages])
              next == {ReactPathMap[label]} \ {END}
          IN  /\ EndSuperstep([node |-> "agent", step |-> step, last |-> Len(messages),
                               label |-> label], messages, next)
              /\ io' = [io EXCEPT !.evaluated = @ + 1, !.raised = OutOfSteps(next)]

RunTools ==
    /\ tasks = {"tools"}
    /\ LET messages == add_messages(channels["messages"],
                           with_ids(tool_node(channels)["messages"], step))
           next == {e[2] : e \in {d \in ReactEdges : d[1] = "tools"}}
       IN  /\ EndSuperstep([node |-> "tools", step |-> step, last |-> Len(messages)],
                           messages, next)
           /\ io' = [io EXCEPT !.raised = OutOfSteps(next)]

NextReact == RunAgent \/ RunTools

SpecReact == InitReact /\ [][NextReact]_vars

---------------------------------------------------------------------------
(* freeCodeCamp Course/Agents/rag.py *)

\* retriever_tool(query), docs being what retriever.invoke(query) returns:
\* the text is the list of its parts, which "\n\n" joins
retriever_tool(query, docs) ==
    IF docs = <<>>
    THEN <<"I found no relevanty information in the Stock Market Performance 2024 document.">>
    ELSE [i \in DOMAIN docs |-> <<"Document ", i, ":\n", docs[i].page_content>>]

\* the names of tools_dict
tools_dict == {"retriever_tool"}

\* one iteration of `for t in tool_calls`: the ToolMessage appended
retriever_iteration(t, docs) ==
    LET result == IF t.name \notin tools_dict
                  THEN <<"Incorrect tool name, please retry and select a tool from the list of available tools.">>
                  ELSE retriever_tool(GetD(t.args, "query", ""), docs)
    IN  [type |-> "tool", tool_call_id |-> t.id, name |-> t.name, content |-> result]

retriever_agent(state, docs) ==
    LET tool_calls == state["messages"][Len(state["messages"])].tool_calls
    IN  [messages |-> [i \in DOMAIN tool_calls |-> retriever_iteration(tool_calls[i], docs)]]

\* call_llm(state), response being what llm.invoke returns
call_llm(state, response) == [messages |-> <<response>>]

\* should_continue of rag.py: state["messages"][1] is the second message
rag_should_continue(state) ==
    LET result == state["messages"][2]
    IN  "tool_calls" \in DOMAIN result /\ Len(result.tool_calls) > 0

\* the mapping given to add_conditional_edges
RagPathMap == [label \in BOOLEAN |-> IF label THEN "retriever_agent" ELSE END]

\* add_edge("retriever_agent", "llm")
RagEdges == {<<"retriever_agent", "llm">>}

RagEntryPoint == "llm"

MaxDocs == 2

\* what the retriever finds in a run: nothing, or MaxDocs chunks
Retrievals == { <<>>, [i \in 1..MaxDocs |-> [page_content |-> <<"chunk", i>>]] }

\* the tool calls the model asks for in a run: a query; or a tool that is
\* not in tools_dict and a call without a query
RagToolCalls ==
    { <<[name |-> "retriever_tool", args |-> [query |-> "S&P 500"], id |-> "call_1"]>>,
      <<[name |-> "search", args |-> [query |-> "S&P 500"], id |-> "call_2"],
        [name |-> "retriever_tool", args |-> EmptyDict, id |-> "call_3"]>> }

\* the messages the model may answer with: an answer, or the tool calls
RagAIMessages(calls) ==
    { [type |-> "ai", content |-> "answer", tool_calls |-> <<>>],
      [type |-> "ai", content |-> "", tool_calls |-> calls] }

\* rag_agent.invoke({"messages": [HumanMessage(content=user_input)]})
InitRag ==
    /\ \E calls \in RagToolCalls, docs \in Retrievals :
          /\ channels = [messages |-> add(<<>>, <<HumanMessage("question")>>)]
          /\ io = [NoRun EXCEPT !.calls = calls, !.docs = docs]
    /\ tasks = {RagEntryPoint}
    /\ finished = {}
    /\ writes = EmptyDict
    /\ step = 1
    /\ history = <<>>
    /\ fn = "none"
    /\ arg = EmptyState
    /\ passed = EmptyState
    /\ res = EmptyState

\* the llm node, and the decision after it, which reads the state with
\* the node's write folded in
RunLlm ==
    /\ tasks = {"llm"}
    /\ \E response \in RagAIMessages(io.calls) :
          LET messages == add(channels["messages"], call_llm(channels, response)["messages"])
              label == rag_should_continue([messages |-> messages])
              next == {RagPathMap[label]} \ {END}
          IN  /\ EndSuperstep([node |-> "llm", step |-> step, last |-> Len(messages),
                               label |-> label], messages, next)
              /\ io' = [io EXCEPT !.evaluated = @ + 1, !.raised = OutOfSteps(next)]

RunRetriever ==
    /\ tasks = {"retriever_agent"}
    /\ LET messages == add(channels["messages"],
                           retriever_agent(channels, io.docs)["messages"])
           next == {e[2] : e \in {d \in RagEdges : d[1] = "retriever_agent"}}
       IN  /\ EndSuperstep([node |-> "retriever_agent", step |-> step, last |-> Len(messages)],
                           messages, next)
           /\ io' = [io EXCEPT !.raised = OutOfSteps(next)]

NextRag == RunLlm \/ RunRetriever

SpecRag == InitRag /\ [][NextRag]_vars

---------------------------------------------------------------------------
(* Properties of a run of the graph *)

ExecutionsOf(n) == {k \in DOMAIN history : history[k].node = n}

\* what fraud_detection_agent returns as fraud_data for the ingested data
DetectedFraud ==
    fraud_loop(GetD(channels["transaction_data"], "data", <<>>), 1, <<>>)

\* C1: the join node risk_analysis does not execute until both of its
\* predecessors, transaction_analysis and fraud_detector, have completed and
\* their partial state has been folded into the state: every execution of
\* risk_analysis sees a snapshot that holds the fraud detector's fraud_data.
C1_JoinBarrier ==
    \A k \in ExecutionsOf("risk_analysis") :
        /\ Predecessors("risk_analysis") \subseteq history[k].folded
        /\ history[k].fraud_data = DetectedFraud

\* C2: in a run each of the five nodes executes at most once.
C2_AtMostOnce ==
    \A n \in Nodes : Cardinality(ExecutionsOf(n)) <= 1

---------------------------------------------------------------------------
(* Properties of fraud_detection_agent, called directly on a state *)

Range(s) == {s[i] : i \in DOMAIN s}

FraudCalled == fn = "fraud_detection_agent"
txnsIn == arg["transaction_data"]["data"]
fraudOut == res["fraud_data"]

ZeroAcc == [risk_score |-> 0, reasons |-> <<>>]

\* which rule bodies of the loop add their reason for input record i
HighFires(i) == high_amount_rule(txnsIn[i], ZeroAcc) # ZeroAcc
DupFires(i) == duplicate_rule(txnsIn, txnsIn[i], ZeroAcc) # ZeroAcc
ForeignFires(i) == foreign_location_rule(txnsIn[i], ZeroAcc) # ZeroAcc
AnyFires(i) == HighFires(i) \/ DupFires(i) \/ ForeignFires(i)

\* the set of input positions some rule fires on, and the place in the
\* output a flagged input position must take if order is preserved
FlaggedPositions == {i \in 1..Len(txnsIn) : AnyFires(i)}
Pos(i) == Cardinality({k \in 1..i : AnyFires(k)})
HasOut(i) == AnyFires(i) /\ Pos(i) \in 1..Len(fraudOut)

\* the four fields copied from the input record
Copies(o, t) ==
    /\ o["transaction_id"] = Get(t, "transaction_id")
    /\ o["account_id"] = Get(t, "account_id")
    /\ o["amount"] = Get(t, "amount")
    /\ o["date"] = Get(t, "date")

\* C3: a record with amount > 2000 on which neither the duplicate rule nor
\* the foreign-location rule fires is in the output with risk_score 0.7 and
\* reasons exactly ["High amount transaction"]; a record with amount <= 2000
\* never carries that reason.
C3_HighAmountOnly ==
    FraudCalled =>
        /\ \A i \in 1..Len(txnsIn) :
              (txnsIn[i]["amount"] > 2000 /\ ~DupFires(i) /\ ~ForeignFires(i)) =>
                  /\ HasOut(i)
                  /\ Copies(fraudOut[Pos(i)], txnsIn[i])
                  /\ fraudOut[Pos(i)]["risk_score"] = 70
                  /\ fraudOut[Pos(i)]["reasons"] = <<HIGH_REASON>>
        /\ \A j \in 1..Len(fraudOut) :
              fraudOut[j]["amount"] <= 2000 =>
                  HIGH_REASON \notin Range(fraudOut[j]["reasons"])

C3_Witness ==
    /\ FraudCalled
    /\ \E i \in 1..Len(txnsIn) :
          /\ txnsIn[i]["amount"] > 2000 /\ ~DupFires(i) /\ ~ForeignFires(i)
          /\ HasOut(i)
          /\ fraudOut[Pos(i)]["reasons"] = <<HIGH_REASON>>
    /\ \E j \in 1..Len(fraudOut) : fraudOut[j]["amount"] = 2000

\* two records at different positions that share account, date and amount
\* and differ in transaction_id
DuplicatePair(i, j) ==
    /\ i # j
    /\ Get(txnsIn[i], "account_id") = Get(txnsIn[j], "account_id")
    /\ Get(txnsIn[i], "date") = Get(txnsIn[j], "date")
    /\ Get(txnsIn[i], "amount") = Get(txnsIn[j], "amount")
    /\ Get(txnsIn[i], "transaction_id") # Get(txnsIn[j], "transaction_id")

CarriesDuplicate(i) ==
    /\ HasOut(i)
    /\ Copies(fraudOut[Pos(i)], txnsIn[i])
    /\ DUP_REASON \in Range(fraudOut[Pos(i)]["reasons"])
    /\ fraudOut[Pos(i)]["risk_score"] - 80 \in {0, 60, 70, 130}

C5_OrderPreservingSubsequence ==
    FraudCalled =>
        /\ Len(fraudOut) = Cardinality(FlaggedPositions)
        /\ \A i \in 1..Len(txnsIn) :
              /\ AnyFires(i) <=> score_txn(txnsIn, txnsIn[i]).risk_score > 0
              /\ AnyFires(i) =>
                    /\ HasOut(i)
                    /\ fraudOut[Pos(i)] =
                          flagged_record(txnsIn[i], score_txn(txnsIn, txnsIn[i]))

\* flagged records on both sides of an unflagged one
C5_Witness ==
    /\ FraudCalled
    /\ Len(txnsIn) = 3 /\ Len(fraudOut) = 2
    /\ AnyFires(1) /\ ~AnyFires(2) /\ AnyFires(3)
    /\ fraudOut[1]["transaction_id"] # fraudOut[2]["transaction_id"]

HasForeignReason(i) ==
    HasOut(i) /\ FOREIGN_REASON \in Range(fraudOut[Pos(i)]["reasons"])

KnownAccount(t) == Get(t, "account_id") \in DOMAIN known_locations

\* C6 (as stated): for a record of an account with a known-location entry
\* the foreign-location rule fires exactly when the record's country is not
\* in the account's known set; for other accounts it never fires.
C6_AsClaimed ==
    FraudCalled =>
        \A i \in 1..Len(txnsIn) :
            IF KnownAccount(txnsIn[i])
            THEN HasForeignReason(i) <=>
                    Get(txnsIn[i], "country") \notin known_locations[txnsIn[i]["account_id"]]
            ELSE ~HasForeignReason(i)

\* C6 amended: for a record of an account with a known-location entry the
\* foreign-location rule fires (+0.6) exactly when the record has a
\* non-empty country that is not in the account's known set; a record with
\* no country, and a record of an account with no entry, never gets it.
C6_ForeignLocation ==
    FraudCalled =>
        \A i \in 1..Len(txnsIn) :
            /\ IF KnownAccount(txnsIn[i])
               THEN HasForeignReason(i) <=>
                       /\ Truthy(Get(txnsIn[i], "country"))
                       /\ txnsIn[i]["country"] \notin known_locations[txnsIn[i]["account_id"]]
               ELSE ~HasForeignReason(i)
            /\ HasForeignReason(i) =>
                  fraudOut[Pos(i)]["risk_score"] - 60 \in {0, 70, 80, 150}

C6_Witness ==
    /\ FraudCalled
    /\ \E i, j, k \in 1..Len(txnsIn) :
          /\ KnownAccount(txnsIn[i]) /\ Get(txnsIn[i], "country") = "Paris"
          /\ HasForeignReason(i)
          /\ KnownAccount(txnsIn[j]) /\ Get(txnsIn[j], "country") = "New York"
          /\ ~HasForeignReason(j)
          /\ ~KnownAccount(txnsIn[k]) /\ Get(txnsIn[k], "country") = "Paris"
          /\ ~HasForeignReason(k)

\* the contribution of each rule, in hundredths
Contribution(reason) ==
    CASE reason = HIGH_REASON -> 70
      [] reason = DUP_REASON -> 80
      [] reason = FOREIGN_REASON -> 60
      [] OTHER -> 0

RECURSIVE SumContributions(_)
SumContributions(reasons) ==
    IF reasons = <<>> THEN 0
    ELSE Contribution(Head(reasons)) + SumContributions(Tail(reasons))

\* the names of the rules whose condition holds of input record i, in the
\* order high amount, duplicate, foreign location
ExpectedReasons(i) ==
    (IF txnsIn[i]["amount"] > 2000 THEN <<HIGH_REASON>> ELSE <<>>)
    \o (IF \E j \in 1..Len(txnsIn) : DuplicatePair(i, j) THEN <<DUP_REASON>> ELSE <<>>)
    \o (IF /\ KnownAccount(txnsIn[i])
           /\ Truthy(Get(txnsIn[i], "country"))
           /\ txnsIn[i]["country"] \notin known_locations[txnsIn[i]["account_id"]]
        THEN <<FOREIGN_REASON>> ELSE <<>>)

\* C7: the risk_score of a flagged record is the uncapped sum of the
\* contributions of exactly the rules that fired on it (one of 0.6, 0.7,
\* 0.8, 1.3, 1.4, 1.5, 2.1) and its reasons are the fired rules, each
\* once, in the order high amount, duplicate, foreign location.
C7_ScoreIsSumOfFiredRules ==
    FraudCalled =>
        /\ \A i \in 1..Len(txnsIn) :
              HasOut(i) =>
                  /\ fraudOut[Pos(i)]["reasons"] = ExpectedReasons(i)
                  /\ fraudOut[Pos(i)]["risk_score"] = SumContributions(ExpectedReasons(i))
        /\ \A j \in 1..Len(fraudOut) :
              fraudOut[j]["risk_score"] \in {60, 70, 80, 130, 140, 150, 210}

\* all three rules fire on one record: 2.1, above 1
C7_Witness ==
    /\ FraudCalled
    /\ \E j \in 1..Len(fraudOut) :
          /\ fraudOut[j]["risk_score"] = 210
          /\ fraudOut[j]["reasons"] = <<HIGH_REASON, DUP_REASON, FOREIGN_REASON>>
    /\ \E j \in 1..Len(fraudOut) :
          /\ fraudOut[j]["risk_score"] = 150
          /\ fraudOut[j]["reasons"] = <<HIGH_REASON, DUP_REASON>>

---------------------------------------------------------------------------
(* Properties of risk_analysis_agent, called directly on a state *)

RiskCalled == fn = "risk_analysis_agent"
flaggedIn == arg["fraud_data"]
riskOut == res["risk_report"]

\* the accounts of a record sequence in the order of their first record
RECURSIVE FirstSeen(_, _)
FirstSeen(records, sofar) ==
    IF records = <<>> THEN sofar
    ELSE FirstSeen(Tail(records),
                   IF Head(records)["account_id"] \in Range(sofar) THEN sofar
                   ELSE Append(sofar, Head(records)["account_id"]))

OfAccount(records, acct) == SelectSeq(records, LAMBDA r : r["account_id"] = acct)

\* C8: risk_analysis_agent emits one summary per distinct account_id, in
\* the order in which the accounts first appear in the input; total_flagged
\* is the number of input records of the account and transactions is those
\* records in their input order.
C8_RiskSummaries ==
    RiskCalled =>
        LET accounts == FirstSeen(flaggedIn, <<>>)
        IN  /\ Len(riskOut) = Len(accounts)
            /\ \A k \in 1..Len(accounts) :
                  /\ k \in DOMAIN riskOut
                  /\ DOMAIN riskOut[k] = {"account_id", "total_flagged", "transactions"}
                  /\ riskOut[k]["account_id"] = accounts[k]
                  /\ riskOut[k]["total_flagged"] = Len(OfAccount(flaggedIn, accounts[k]))
                  /\ riskOut[k]["transactions"] = OfAccount(flaggedIn, accounts[k])

\* the records of two accounts interleaved, the later-named account first
C8_Witness ==
    /\ RiskCalled
    /\ Len(flaggedIn) = 4 /\ Len(riskOut) = 2
    /\ flaggedIn[1]["account_id"] = "AC009" /\ flaggedIn[2]["account_id"] = "AC001"
    /\ flaggedIn[3]["account_id"] = "AC009"
    /\ riskOut[1]["account_id"] = "AC009" /\ riskOut[1]["total_flagged"] = 3
    /\ riskOut[2]["total_flagged"] = 1

---------------------------------------------------------------------------
(* Properties of the supervisor's deduplication *)

SupervisorCalled == fn \in {"supervisor_agent", "supervisor_agent again"}
dedupIn == arg["fraud_data"]
dedupInAfter == passed["fraud_data"]
dedupOut == res["fraud_data"]

\* the dedup key of a record, stated on the keys present: transaction_id if the
\* record has one, else payment_id, else the composite string
DedupKey(tx) ==
    IF "transaction_id" \in DOMAIN tx /\ tx["transaction_id"] \notin {None, ""}
    THEN tx["transaction_id"]
    ELSE IF "payment_id" \in DOMAIN tx /\ tx["payment_id"] \notin {None, ""}
    THEN tx["payment_id"]
    ELSE tx["account_id"] \o "_" \o tx["date"] \o "_" \o ToString(tx["amount"])

\* C9: the deduplication step is idempotent: applied to its own output it
\* returns a list equal to that output, backfilled transaction_id values
\* included.
C9_DedupIdempotent ==
    fn = "supervisor_agent again" =>
        /\ dedupOut = dedupIn
        /\ dedupInAfter = dedupIn

\* the second call has run on an output of the first that holds a record
\* backfilled with its composite key and one backfilled with an empty
\* payment_id
C9_Witness ==
    /\ fn = "supervisor_agent again"
    /\ Len(dedupOut) = 2
    /\ \E j \in 1..Len(dedupOut) :
          dedupOut[j]["transaction_id"] = "AC001_D1_900" /\ "payment_id" \notin DOMAIN dedupOut[j]
    /\ \E j \in 1..Len(dedupOut) :
          dedupOut[j]["transaction_id"] = "" /\ dedupOut[j]["payment_id"] = ""

\* the positions of the input that hold the first record of their key
FirstOfKey(i) == \A k \in 1..(i - 1) : DedupKey(dedupIn[k]) # DedupKey(dedupIn[i])
KeptPositions == {i \in 1..Len(dedupIn) : FirstOfKey(i)}
KeptPos(i) == Cardinality({k \in 1..i : FirstOfKey(k)})

\* C10: the deduplication keeps, for each dedup key, exactly the first
\* record of the input carrying that key: the output is a subsequence of
\* the input in input order (the kept records are the input's own, a
\* missing transaction_id filled in), its keys are pairwise distinct, and
\* every key of the input occurs in it.
C10_FirstWins ==
    SupervisorCalled =>
        /\ Len(dedupOut) = Cardinality(KeptPositions)
        /\ Len(dedupInAfter) = Len(dedupIn)
        /\ \A i \in KeptPositions :
              /\ KeptPos(i) \in 1..Len(dedupOut)
              /\ dedupOut[KeptPos(i)] = dedupInAfter[i]
              /\ DedupKey(dedupOut[KeptPos(i)]) = DedupKey(dedupIn[i])
              /\ \A k \in DOMAIN dedupIn[i] : dedupOut[KeptPos(i)][k] = dedupIn[i][k]
              /\ DOMAIN dedupOut[KeptPos(i)] = DOMAIN dedupIn[i] \cup {"transaction_id"}
        /\ \A i \in 1..Len(dedupIn) : i \notin KeptPositions => dedupInAfter[i] = dedupIn[i]
        /\ \A j, k \in 1..Len(dedupOut) :
              j # k => DedupKey(dedupOut[j]) # DedupKey(dedupOut[k])
        /\ {DedupKey(dedupOut[j]) : j \in 1..Len(dedupOut)}
              = {DedupKey(dedupIn[i]) : i \in 1..Len(dedupIn)}

\* three records, the third with the key of the first (one by its
\* payment_id, one by its transaction_id), the second with another key
C10_Witness ==
    /\ fn = "supervisor_agent"
    /\ Len(dedupIn) = 3 /\ Len(dedupOut) = 2
    /\ "transaction_id" \notin DOMAIN dedupIn[1]
    /\ DedupKey(dedupIn[1]) = "T1" /\ DedupKey(dedupIn[3]) = "T1"
    /\ "transaction_id" \in DOMAIN dedupIn[3]
    /\ DedupKey(dedupIn[2]) = "AC001_D1_500"
    /\ dedupOut[1]["transaction_id"] = "T1"

\* C11: every record of the deduplicated output carries a usable
\* transaction_id: none has the key missing or holds None under it, and the
\* transaction_id values of the output records are pairwise distinct.
C11_UsableTransactionId ==
    SupervisorCalled =>
        /\ \A j \in 1..Len(dedupOut) :
              /\ "transaction_id" \in DOMAIN dedupOut[j]
              /\ dedupOut[j]["transaction_id"] # None
        /\ \A j, k \in 1..Len(dedupOut) :
              j # k => dedupOut[j]["transaction_id"] # dedupOut[k]["transaction_id"]

---------------------------------------------------------------------------
(* Properties of the supervisor's flattening and of its readable report *)

HasAnalysis(state) == "analysis" \in DOMAIN state["transaction_data"]
analysisIn == arg["transaction_data"]["analysis"]
analysisOut == res["transaction_data"]["analysis"]

\* the value at the end of a chain of nested values
Innermost(chain) == <<chain[Len(chain)]>>

\* C12: for any nesting depth of dicts with a "data" key under
\* transaction_data["analysis"], the flatten loop ends and leaves analysis
\* equal to the innermost value, which is not a dict with the key "data"; an
\* analysis that is not such a dict is left unchanged.
C12_FlattenToInnermost ==
    (fn = "supervisor_agent" /\ HasAnalysis(arg)) =>
        /\ HasAnalysis(res)
        /\ analysisOut = Innermost(analysisIn)
        /\ ~(Head(analysisOut).dict /\ Head(analysisOut).data)
        /\ ~(Head(analysisIn).dict /\ Head(analysisIn).data) => analysisOut = analysisIn
        /\ passed["transaction_data"]["analysis"] = analysisOut
        /\ res["final_report"]["json_report"]["transactions"]["analysis"] = analysisOut

\* an analysis nested under more than one "data" key, flattened
C12_Witness ==
    /\ fn = "supervisor_agent"
    /\ HasAnalysis(arg)
    /\ Len(analysisIn) >= 3
    /\ Head(analysisIn).dict /\ Head(analysisIn).data
    /\ Len(analysisOut) = 1
    /\ ~Head(analysisOut).dict /\ Head(analysisOut).data

reportIn == arg["risk_report"]
readable == res["final_report"]["readable_report"]

\* the number of lines of the summaries before the k-th
RECURSIVE LinesBefore(_)
LinesBefore(k) ==
    IF k <= 1 THEN 0
    ELSE LinesBefore(k - 1) + 1 + reportIn[k - 1]["total_flagged"]

\* the header line and the indented line, written out
HeaderLine(id, n) ==
    "Account " \o id \o " has " \o ToString(n) \o " flagged transactions:"

IndentedLine(tx) ==
    "  - " \o tx["transaction_id"] \o " | Amount: " \o ToString(tx["amount"])
        \o " | Date: " \o tx["date"] \o " | Risk: "
        \o (IF tx["risk_score"] = 80 THEN "0.8" ELSE "1.5")
        \o " | Reasons: "
        \o (IF tx["reasons"] = <<DUP_REASON>> THEN "Duplicate transaction same day"
            ELSE "High amount transaction, Duplicate transaction same day")

\* C18: readable_report consists, for each account summary of the risk
\* report in order, of the header line "Account {id} has {n} flagged
\* transactions:" followed at once by exactly n indented lines, one per
\* flagged transaction of the account in order; the number of lines is the
\* number of summaries plus the sum of their total_flagged.
C18_ReadableReportLines ==
    fn = "supervisor_agent" =>
        /\ Len(readable) = LinesBefore(Len(reportIn) + 1)
        /\ \A k \in 1..Len(reportIn) :
              LET n == reportIn[k]["total_flagged"]
                  h == LinesBefore(k) + 1
              IN  /\ h + n <= Len(readable)
                  /\ readable[h] = HeaderLine(reportIn[k]["account_id"], n)
                  /\ n = Len(reportIn[k]["transactions"])
                  /\ \A m \in 1..n :
                        readable[h + m] = IndentedLine(reportIn[k]["transactions"][m])

\* two summaries, the first of two transactions: five lines
C18_Witness ==
    /\ fn = "supervisor_agent"
    /\ Len(reportIn) = 2
    /\ reportIn[1]["total_flagged"] = 2 /\ reportIn[2]["total_flagged"] = 1
    /\ Len(readable) = 5
    /\ readable[4] = "Account AC001 has 1 flagged transactions:"
    /\ readable[5] = "  - T2 | Amount: 2500 | Date: D1 | Risk: 1.5 | Reasons: High amount transaction, Duplicate transaction same day"

---------------------------------------------------------------------------
(* Properties of the ingestion in a run *)

\* the records of the responses without an "error" key, in order
RECURSIVE ConcatSucceeded(_)
ConcatSucceeded(responses) ==
    IF responses = <<>> THEN <<>>
    ELSE (IF "error" \in DOMAIN Head(responses) THEN <<>> ELSE Head(responses)["data"])
         \o ConcatSucceeded(Tail(responses))

\* C13: for every list of sources of which any subset fails, the run is
\* not aborted and the data list of the transaction_data channel, once
\* ingestion has been folded and so in the final state, is the
\* concatenation in source-list order of the records of exactly the sources
\* that succeeded.
IngestedSucceeded ==
    "ingestion" \in Folded =>
        /\ "data" \in DOMAIN channels["transaction_data"]
        /\ channels["transaction_data"]["data"] = ConcatSucceeded(io.responses)

C13_FailedSourcesSkipped ==
    /\ ~io.raised
    /\ IngestedSucceeded

---------------------------------------------------------------------------
(* Properties of the final state of a run *)

ingested == channels["transaction_data"]["data"]
json_report == channels["final_report"]["json_report"]

\* the flagged record of a 500 transaction of AC009 with the duplicate reason
Flagged500(tid) ==
    [transaction_id |-> tid, account_id |-> "AC009", amount |-> 500, date |-> "D1",
     risk_score |-> 80, reasons |-> <<DUP_REASON>>]

\* the ingested data is two same-day transactions of equal amount 500 of
\* the one account AC009, which has no known_locations entry
TwoSameDay ==
    /\ Len(ingested) = 2
    /\ \A i \in 1..2 :
          /\ ingested[i]["account_id"] = "AC009" /\ ingested[i]["amount"] = 500
          /\ ingested[i]["date"] = ingested[1]["date"]
          /\ "AC009" \notin DOMAIN known_locations
    /\ ingested[1]["transaction_id"] # ingested[2]["transaction_id"]

\* C14: when the ingested data is one account's two same-day transactions
\* of amount 500 with distinct transaction_id and no known-location entry,
\* the final state has both records flagged with risk_score 0.8 and
\* reasons ["Duplicate transaction same day"], in the fraud_data channel
\* and in the report, and every risk summary of the account, in the
\* risk_report channel and in the report, shows total_flagged 2.
C14_DuplicatePairEndToEnd ==
    (RunEnded /\ TwoSameDay) =>
        LET both == <<Flagged500(ingested[1]["transaction_id"]),
                      Flagged500(ingested[2]["transaction_id"])>>
        IN  /\ Range(channels["fraud_data"]) = Range(both)
            /\ json_report["fraud_data"] = both
            /\ channels["risk_report"] # <<>>
            /\ \A k \in 1..Len(channels["risk_report"]) :
                  /\ channels["risk_report"][k]["account_id"] = "AC009"
                  /\ channels["risk_report"][k]["total_flagged"] = 2
                  /\ channels["risk_report"][k]["transactions"] = both
            /\ json_report["risk_report"] =
                  <<[account_id |-> "AC009", total_flagged |-> 2, transactions |-> both]>>
            /\ Len(channels["final_report"]["readable_report"]) = 3

C14_Witness ==
    /\ RunEnded
    /\ TwoSameDay
    /\ ingested[1]["transaction_id"] = "T2"
    /\ json_report["fraud_data"] = <<Flagged500("T2"), Flagged500("T1")>>
    /\ json_report["risk_report"][1]["total_flagged"] = 2

\* the state a node's return is folded into
FoldOne(chs, n, state) ==
    [key \in ChannelKeys |->
        Reduce(key, chs[key],
               IF key = "transaction_data" /\ n # "ingestion" THEN chs[key] ELSE state[key])]

\* the final state of the run in which the nodes of every superstep run
\* one after the other, in the order in which they were added
SequentialRun(initial_state, responses, analysis) ==
    LET c0 == [EmptyState EXCEPT !["transaction_data_sources"] =
                  add(<<>>, initial_state["transaction_data_sources"])]
        c1 == FoldOne(c0, "ingestion", ingestion_agent(c0, responses))
        a2 == transaction_analysis_agent(c1, analysis)
        c2 == FoldOne(a2, "transaction_analysis", a2)
        c3 == FoldOne(FoldOne(c2, "fraud_detector", fraud_detection_agent(c2)),
                      "risk_analysis", risk_analysis_agent(c2))
        c4 == FoldOne(FoldOne(supervisor_in_place(c3), "risk_analysis", risk_analysis_agent(c3)),
                      "supervisor", supervisor_agent(c3))
    IN  FoldOne(supervisor_in_place(c4), "supervisor", supervisor_agent(c4))

\* C15: the final state is the same for every schedule of the parallel
\* branches: whichever of the nodes of a superstep returns first, the run
\* from an initial state, with the same source contents and the same
\* analysis value, ends in the same state.
C15_ScheduleIndependent ==
    RunEnded => channels = SequentialRun(io.initial_state, io.responses, io.analysis)

\* position in the log of the execution of node n in superstep st
LogPos(n, st) == CHOOSE k \in DOMAIN history : history[k].node = n /\ history[k].step = st

\* a run in which risk_analysis returned before fraud_detector, and the
\* supervisor before risk_analysis, on flagged data and a nested analysis
C15_Witness ==
    /\ RunEnded
    /\ LogPos("risk_analysis", 3) < LogPos("fraud_detector", 3)
    /\ LogPos("supervisor", 4) < LogPos("risk_analysis", 4)
    /\ Len(io.analysis) > 1
    /\ Len(json_report["fraud_data"]) = 2

\* the run has ended, the supervisor was the last node to execute, and the
\* final state holds the report composed from the detected fraud
EndedWithReport ==
    /\ RunEnded
    /\ history # <<>>
    /\ history[Len(history)].node = "supervisor"
    /\ DOMAIN channels["final_report"] = {"json_report", "readable_report"}
    /\ json_report["transactions"] = channels["transaction_data"]
    /\ json_report["fraud_data"] = dedup(DetectedFraud).clean_fraud
    /\ json_report["risk_report"] = risk_loop(DetectedFraud, 1, <<>>)
    /\ channels["final_report"]["readable_report"] = summary_lines(json_report["risk_report"])

\* what is left of a run: the supersteps to come, each counted above the
\* nodes it can hold, and the nodes of this superstep yet to return
Measure ==
    (Len(NodeOrder) + 2 - step) * (Cardinality(Nodes) + 1) + Cardinality(tasks \ finished)

\* a node of the superstep can run, or the superstep can be closed
StepPossible ==
    (\E n \in tasks \cap Nodes : Runnable(n)) \/ finished = tasks

\* C16: every run in which each node body returns terminates: it reaches a
\* state in which no node is eligible to execute, the supervisor is the
\* last node to have executed, and the final state holds the final_report
\* it composed.  Every step of a run takes from a measure that stays a
\* natural number, while a node is eligible a step is possible (and is
\* taken, the run being fair), and with no node eligible the run has ended
\* as said, unless a node body raised.
C16_Terminates ==
    /\ [](Measure \in Nat)
    /\ [][Measure' < Measure]_vars
    /\ [](tasks # {} => StepPossible)
    /\ [](tasks = {} => (io.raised \/ EndedWithReport))

C16_Witness ==
    /\ EndedWithReport
    /\ Len(history) = 7
    /\ json_report["risk_report"] # <<>>

---------------------------------------------------------------------------
(* Properties of what a node changes *)

\* C19: the reduce step after a node changes only the channels the node
\* writes: transaction_data_sources, which no node writes, holds the list
\* invoke was called with, in every state and so in the final one, and
\* until fraud_detector has been folded fraud_data and risk_report are as
\* they were.
C19_FrameOfReduce ==
    /\ channels["transaction_data_sources"] = io.initial_state["transaction_data_sources"]
    /\ "fraud_detector" \notin Folded =>
          /\ channels["fraud_data"] = io.initial_state["fraud_data"]
          /\ channels["risk_report"] = io.initial_state["risk_report"]

\* C20: no node body modifies the state it was given or a value reachable
\* from it: the channel values change only in the reduce step.  The
\* transaction_data channel has no analysis before transaction_analysis has
\* been folded, and that analysis is as stored until the supervisor has.
C20_NoInPlaceModification ==
    /\ HasAnalysis(channels) => "transaction_analysis" \in Folded
    /\ (HasAnalysis(channels) /\ "supervisor" \notin Folded) =>
          channels["transaction_data"]["analysis"] = io.analysis

---------------------------------------------------------------------------
(* Properties of the tools *)

ToolCalled == fn \in ToolNames

\* the columns without which the tool's computation cannot succeed
NeededColumns(name) ==
    CASE name = "time_series_analysis" -> {"date", "amount"}
      [] name = "outlier_detection" -> {"amount", "ip_address"}
      [] name = "rule_based_checker" -> {"amount", "account_id", "date"}
      [] name = "regulatory_checker" -> {"amount", "date", "account_id", "country"}
      [] OTHER -> {}

\* C17: each of the eight analysis and scoring tools, given a mapping with
\* an "error" key, returns that same mapping, unchanged; given any other
\* mapping it returns a mapping, its result or one with an "error" key,
\* and the latter whenever its computation cannot succeed (no "data" key,
\* a column it needs missing): it does not raise.
C17_ToolsForwardErrors ==
    ToolCalled =>
        /\ passed = arg
        /\ "error" \in DOMAIN arg => res = arg
        /\ "error" \notin DOMAIN arg =>
              /\ DOMAIN res \in { {"error"}, {ResultKey(fn)} }
              /\ ("data" \notin DOMAIN arg
                  \/ ~(NeededColumns(fn) \subseteq arg["data"].columns)) =>
                    DOMAIN res = {"error"}

\* a tool handed an error mapping that also has the key "data"
C17_Witness ==
    /\ fn = "regulatory_checker"
    /\ DOMAIN arg = {"error", "data"}
    /\ res = arg

---------------------------------------------------------------------------
(* Properties of the flagged records *)

\* the two fields a flagged record has over its transaction record
AddedFields == {"risk_score", "reasons"}

\* C21: every flagged record emitted by fraud_detection_agent has every
\* field of the transaction record it was derived from, with its value
\* (country, ip_address and payment_id included when the record has them),
\* and has no other field than these and risk_score and reasons.
C21_RetainsEveryField ==
    FraudCalled =>
        \A i \in FlaggedPositions :
            HasOut(i) =>
                LET o == fraudOut[Pos(i)]
                    t == txnsIn[i]
                IN  /\ DOMAIN o = (DOMAIN t) \cup AddedFields
                    /\ \A k \in DOMAIN t : o[k] = t[k]

\* the records under the account summaries of a risk report
SummaryRecords(risk_report) ==
    UNION { Range(risk_report[k]["transactions"]) : k \in DOMAIN risk_report }

\* the flagged records a state of the run holds: in the fraud_data
\* channel, under the summaries of the risk_report channel, and in the
\* final_report once it is composed
StoredRecords ==
    Range(channels["fraud_data"])
    \cup SummaryRecords(channels["risk_report"])
    \cup (IF "json_report" \in DOMAIN channels["final_report"]
          THEN Range(json_report["fraud_data"]) \cup SummaryRecords(json_report["risk_report"])
          ELSE {})

\* C22: in every reachable state of a run, every record in the fraud_data
\* channel, under the summaries of the risk_report channel and in
\* final_report has a risk_score above 0 and a non-empty reasons list.
C22_FlaggedHaveReasons ==
    \A r \in StoredRecords :
        /\ {"risk_score", "reasons"} \subseteq DOMAIN r
        /\ r["risk_score"] > 0
        /\ r["reasons"] # <<>>

\* a run has ended with an unflagged row ingested beside a flagged one
\* and flagged records in all three places
C22_Witness ==
    /\ RunEnded
    /\ Len(ingested) = 2
    /\ Cardinality(StoredRecords) = 1
    /\ channels["fraud_data"] # <<>>
    /\ SummaryRecords(channels["risk_report"]) # {}
    /\ Range(json_report["fraud_data"]) = StoredRecords
    /\ SummaryRecords(json_report["risk_report"]) = StoredRecords

---------------------------------------------------------------------------
(* Properties of the Data Analytics pipeline *)

Executed(n) == \E k \in DOMAIN history : history[k].node = n

\* the dataset the loader stored is an error sentinel
LoaderFailed == Executed("loader") /\ "error" \in DOMAIN channels["dataset"]

\* C23: in the Data Analytics pipeline, when the loader has stored an
\* error sentinel {error: ...} as the dataset, the analyst stores that
\* same sentinel, unchanged, in analysis_results: it neither operates on it
\* nor produces another error.
C23_AnalystForwardsSentinel ==
    (LoaderFailed /\ Executed("analyst")) =>
        channels["analysis_results"] = channels["dataset"]

\* the analyst has run on the sentinel of a file whose reading raised
C23_Witness ==
    /\ LoaderFailed
    /\ Executed("analyst")
    /\ channels["dataset"] = [error |-> <<"ParserError">>]
    /\ channels["analysis_results"] = [error |-> <<"ParserError">>]

---------------------------------------------------------------------------
(* Properties of the ReAct agent graph *)

\* the nodes of the superstep after the k-th execution of the log: the
\* node executed next, or the tasks of the state
After(k) == IF k < Len(history) THEN {history[k + 1].node} ELSE tasks

\* the last message of the state after the k-th execution has tool calls
AskedForTools(k) == channels["messages"][history[k].last].tool_calls # <<>>

\* the run was routed as the decision after the k-th execution says
RoutedAfter(k) ==
    CASE history[k].node = "agent" ->
            /\ history[k].label \in {"continue", "end"}
            /\ history[k].label \in DOMAIN ReactPathMap
            /\ After(k) = {"tools"} <=> AskedForTools(k)
            /\ After(k) = {} <=> ~AskedForTools(k)
      [] history[k].node = "tools" -> After(k) = {"agent"}

\* should_continue has been evaluated once for each execution of the agent
EvaluatedOncePerVisit == io.evaluated = Cardinality(ExecutionsOf("agent"))

\* C24 as claimed: should_continue is evaluated once after each execution
\* of the agent node and returns "continue" or "end"; the run goes to the
\* tools node exactly when the last message has tool calls and ends
\* exactly when it has none; the tools node is always followed by the
\* agent node.
C24_AsClaimed ==
    /\ EvaluatedOncePerVisit
    /\ \A k \in DOMAIN history : RoutedAfter(k)

\* C24: should_continue is evaluated once after each execution of the
\* agent node and returns "continue" or "end"; as long as the run has
\* supersteps left, it goes to the tools node exactly when the last
\* message has tool calls and ends exactly when it has none, and the tools
\* node is followed by the agent node; a run that has taken
\* recursion_limit supersteps and would go on raises instead.
C24_RoutedWithinLimit ==
    /\ EvaluatedOncePerVisit
    /\ \A k \in DOMAIN history :
          IF k = Len(history) /\ io.raised
          THEN /\ history[k].step = recursion_limit
               /\ tasks = {}
               /\ history[k].node = "agent" => AskedForTools(k)
          ELSE RoutedAfter(k)
    /\ io.raised => history # <<>>

\* a run that went agent, tools, agent and ended on an answer
C24_Witness ==
    /\ Len(history) = 3
    /\ history[1].label = "continue" /\ history[2].node = "tools"
    /\ history[3].label = "end"
    /\ ~io.raised
    /\ tasks = {}
    /\ channels["messages"][3].content = "52"
    /\ channels["messages"][4].content = "52"

---------------------------------------------------------------------------
(* Properties of the RAG agent graph *)

\* C25: after every execution of the llm node the run is routed to
\* retriever_agent exactly when the last message of the state, the one the
\* llm just produced, has at least one tool call, and to END otherwise: a
\* run ends as soon as the llm returns a message without tool calls, after
\* any number of retrieval rounds.  (A run stopped by the step limit
\* aside.)
C25_RoutesOnLastMessage ==
    \A k \in ExecutionsOf("llm") :
        \/ k = Len(history) /\ io.raised
        \/ /\ After(k) = {"retriever_agent"} <=> AskedForTools(k)
           /\ After(k) = {} <=> ~AskedForTools(k)

---------------------------------------------------------------------------
(* Properties of the final report and the final state *)

\* the sum of total_flagged over the first n summaries of a risk report
RECURSIVE TotalFlagged(_, _)
TotalFlagged(risk_report, n) ==
    IF n = 0 THEN 0
    ELSE TotalFlagged(risk_report, n - 1) + risk_report[n]["total_flagged"]

\* C26: in the final report of a run, the risk report and the
\* deduplicated fraud list describe the same records: the sum of
\* total_flagged over the account summaries is the number of records of
\* final_report's fraud_data, and every record under an account summary is
\* in that fraud_data list.
C26_ReportsAgree ==
    (RunEnded /\ "json_report" \in DOMAIN channels["final_report"]) =>
        /\ TotalFlagged(json_report["risk_report"], Len(json_report["risk_report"]))
              = Len(json_report["fraud_data"])
        /\ SummaryRecords(json_report["risk_report"]) \subseteq Range(json_report["fraud_data"])

\* C27: at the end of a run, no two entries of the fraud_data channel of
\* the final state share a dedup key, and no two summaries of its
\* risk_report channel are of the same account_id.
C27_ChannelsDeduplicated ==
    RunEnded =>
        /\ \A i, j \in DOMAIN channels["fraud_data"] :
              i # j => tx_key(channels["fraud_data"][i]) # tx_key(channels["fraud_data"][j])
        /\ \A i, j \in DOMAIN channels["risk_report"] :
              i # j => channels["risk_report"][i]["account_id"]
                         # channels["risk_report"][j]["account_id"]

---------------------------------------------------------------------------
(* Properties of records identified by payment_id *)

\* the records at i and j have no transaction_id, have distinct
\* payment_id values, and share account_id, date and amount
PaymentPair(i, j) ==
    /\ i # j
    /\ "transaction_id" \notin DOMAIN txnsIn[i] /\ "transaction_id" \notin DOMAIN txnsIn[j]
    /\ "payment_id" \in DOMAIN txnsIn[i] /\ "payment_id" \in DOMAIN txnsIn[j]
    /\ txnsIn[i]["payment_id"] # txnsIn[j]["payment_id"]
    /\ txnsIn[i]["account_id"] = txnsIn[j]["account_id"]
    /\ txnsIn[i]["date"] = txnsIn[j]["date"]
    /\ txnsIn[i]["amount"] = txnsIn[j]["amount"]

\* the record at i is in the output with the duplicate rule's contribution
FlaggedAsDuplicate(i) ==
    /\ HasOut(i)
    /\ DUP_REASON \in Range(fraudOut[Pos(i)]["reasons"])
    /\ fraudOut[Pos(i)]["risk_score"] >= 80

\* C28: two records with no transaction_id and distinct payment_id values
\* that share account_id, date and amount are both flagged by
\* fraud_detection_agent with the same-day-duplicate contribution.
C28_PaymentIdFallback ==
    FraudCalled =>
        \A i, j \in 1..Len(txnsIn) :
            PaymentPair(i, j) => FlaggedAsDuplicate(i) /\ FlaggedAsDuplicate(j)

=============================================================================
